---- MODULE Spec2Model ----
(***************************************************************************)
(* The three maintenance scripts of scripts/: fix-all-lint.py,             *)
(* fix-unused-imports.py and fix-any-types.py.  Each reads test files,     *)
(* applies regular-expression substitutions to the text and writes the     *)
(* text back.                                                               *)
(*                                                                         *)
(* A text is a sequence of tokens; every token is the literal piece of     *)
(* text it spells, and a text is the concatenation of its tokens.  The     *)
(* tokens are the literals the scripts' regular expressions are made of,   *)
(* so each re.sub is modelled by what it matches and what it puts back.    *)
(***************************************************************************)
EXTENDS Integers, Sequences, FiniteSets, TLC

----------------------------------------------------------------------------
(* Tokens *)

IT == "import type {"
IMP == "import it"
SP == " "
NL == "\n"
COMMA == ","
RB == "}"
SEMI == ";"
FROM_IDX == " from '../../src/types/index.js';"
FROM_VITEST == " from 'vitest';"
SuccessResponse == "SuccessResponse"
ErrorResponse == "ErrorResponse"
PingResponse == "PingResponse"
FOO == "Foo"
BAR == "Bar"
DATA == "data"
CAST == "(await res.json())"
AS_ANY == " as any;"
AS_ERROR == " as ErrorResponse;"
AS_SUCCESS == " as SuccessResponse;"
AS_PING == " as PingResponse;"
AS_GENERIC == " as SuccessResponse | ErrorResponse;"
EXPECT_200 == "expect(res.status).toBe(200)"
EXPECT_201 == "expect(res.status).toBe(201)"
EXPECT_204 == "expect(res.status).toBe(204)"
EXPECT_400 == "expect(res.status).toBe(400)"
EXPECT_404 == "expect(res.status).toBe(404)"
EXPECT_500 == "expect(res.status).toBe(500)"
STATUS_OK == "status: 'ok'"
EXPECT_DATA == "expect(data).toEqual({ "

\* (SuccessResponse|ErrorResponse|PingResponse)
ResponseNames == {SuccessResponse, ErrorResponse, PingResponse}

\* \s : the tokens that are white space
IsSpace(t) == t \in {SP, NL}

\* the tokens whose text starts with a blank
LeadingSpace(t) == t \in {SP, FROM_IDX, FROM_VITEST, AS_ANY, AS_ERROR, AS_SUCCESS,
                          AS_PING, AS_GENERIC}

\* [^}] : the tokens whose text holds no closing brace
NoBrace(t) == t \notin {RB}

\* the tokens whose text ends with a closing parenthesis
EndsParen(t) == t \in {CAST, EXPECT_200, EXPECT_201, EXPECT_204, EXPECT_400,
                       EXPECT_404, EXPECT_500}

Min(S) == CHOOSE x \in S : \A y \in S : x <= y
Max(S) == CHOOSE x \in S : \A y \in S : x >= y

\* the first index from i on whose token is not matched by [^}], Len(s)+1 if none
FirstBrace(s, i) ==
    LET B == {k \in i..Len(s) : ~NoBrace(s[k])}
    IN IF B = {} THEN Len(s) + 1 ELSE Min(B)

\* the first index from i on whose token is not white space, Len(s)+1 if none
SkipSpace(s, i) ==
    LET B == {k \in i..Len(s) : ~IsSpace(s[k])}
    IN IF B = {} THEN Len(s) + 1 ELSE Min(B)

----------------------------------------------------------------------------
(* fix-all-lint.py: remove_unused_imports *)

\* (, (S|E|P)) repeated at least once: pattern 1 after its group 1
NameTail(x) ==
    /\ Len(x) >= 3
    /\ Len(x) % 3 = 0
    /\ \A k \in 1..Len(x) :
          CASE k % 3 = 1 -> x[k] = COMMA
            [] k % 3 = 2 -> x[k] = SP
            [] OTHER -> x[k] \in ResponseNames

\* the ends g of group 1 ([^}]+), starting at b, for which the rest of pattern 1
\* matches up to the closing brace at r
Group1Ends(s, b, r) == {g \in b..(r - 5) : NameTail(SubSeq(s, g + 1, r - 2))}

\* [^}]+ is greedy: the longest group 1 for which the rest still matches
Group1End(G) == Max(G)

\* one match of pattern 1 at i: [ok, repl, next]
Match1(s, i) ==
    IF ~(s[i] = IT /\ i + 1 <= Len(s) /\ LeadingSpace(s[i + 1]))
    THEN [ok |-> FALSE, repl |-> <<>>, next |-> i + 1]
    ELSE LET b == IF s[i + 1] = SP THEN i + 2 ELSE i + 1
             r == FirstBrace(s, b)
             G == IF r <= Len(s) /\ s[r] = RB /\ r - 1 >= b /\ s[r - 1] = SP
                  THEN Group1Ends(s, b, r) ELSE {}
         IN IF G = {}
            THEN [ok |-> FALSE, repl |-> <<>>, next |-> i + 1]
            ELSE [ok |-> TRUE,
                  repl |-> SubSeq(s, i, Group1End(G)) \o <<SP, RB>>,
                  next |-> r + 1]

RECURSIVE Sub1(_, _)
Sub1(s, i) ==
    IF i > Len(s) THEN <<>>
    ELSE LET m == Match1(s, i)
         IN IF m.ok THEN m.repl \o Sub1(s, m.next)
            ELSE <<s[i]>> \o Sub1(s, i + 1)

\* Pattern 1: import type { \1, names } -> import type { \1 }
Pattern1(content) == Sub1(content, 1)

RECURSIVE Sub2(_, _)
Sub2(s, i) ==
    IF i > Len(s) THEN <<>>
    ELSE LET j == SkipSpace(s, i + 1)
         IN IF s[i] = COMMA /\ j <= Len(s) /\ s[j] = COMMA
            THEN <<COMMA>> \o Sub2(s, j + 1)
            ELSE <<s[i]>> \o Sub2(s, i + 1)

\* Pattern 2: ,\s*, -> ,
Pattern2(content) == Sub2(content, 1)

RECURSIVE Sub3(_, _)
Sub3(s, i) ==
    IF i > Len(s) THEN <<>>
    ELSE LET j == SkipSpace(s, i + 1)
         IN IF s[i] = COMMA /\ j <= Len(s) /\ s[j] = RB
            THEN <<SP, RB>> \o Sub3(s, j + 1)
            ELSE <<s[i]>> \o Sub3(s, i + 1)

\* Pattern 3: ,\s*\} -> " }"
Pattern3(content) == Sub3(content, 1)

\* the text remove_unused_imports writes back for the text it read
remove_unused_imports(content) == Pattern3(Pattern2(Pattern1(content)))

----------------------------------------------------------------------------
(* fix-unused-imports.py: the substitution of the batch loop *)

UNUSED == <<COMMA, SP, SuccessResponse, COMMA, SP, ErrorResponse, COMMA, SP, PingResponse>>

RECURSIVE SubUnused(_, _)
SubUnused(s, i) ==
    IF i > Len(s) THEN <<>>
    ELSE IF i + Len(UNUSED) - 1 <= Len(s) /\ SubSeq(s, i, i + Len(UNUSED) - 1) = UNUSED
         THEN SubUnused(s, i + Len(UNUSED))
         ELSE <<s[i]>> \o SubUnused(s, i + 1)

\* re.sub(r', SuccessResponse, ErrorResponse, PingResponse', '', content)
remove_unused(content) == SubUnused(content, 1)

----------------------------------------------------------------------------
(* fix-any-types.py: fix_any_types *)

\* name in text of token t
Mentions(t, name) ==
    \/ t = name
    \/ name = SuccessResponse /\ t \in {AS_SUCCESS, AS_GENERIC}
    \/ name = ErrorResponse /\ t \in {AS_ERROR, AS_GENERIC}
    \/ name = PingResponse /\ t = AS_PING

\* name in content
Contains(content, name) == \E k \in 1..Len(content) : Mentions(content[k], name)

\* an import step that does not look at the names the text holds
NeedsImportAlways(content) == TRUE

\* 'SuccessResponse' not in content and 'ErrorResponse' not in content
NeedsImport(content) ==
    ~Contains(content, SuccessResponse) /\ ~Contains(content, ErrorResponse)

\* ', SuccessResponse, ErrorResponse, PingResponse ' put before '} from'
ADDED_NAMES == UNUSED \o <<SP>>

\* import type { SuccessResponse, ErrorResponse, PingResponse } from '../../src/types/index.js';\n
NEW_IMPORT == <<IT, SP, SuccessResponse, COMMA, SP, ErrorResponse, COMMA, SP,
                PingResponse, SP, RB, FROM_IDX, NL>>

\* one match of import_pattern at i: import type \{[^}]+\} from '../../src/types/index.js';
MatchImport(s, i) ==
    LET r == FirstBrace(s, i + 1)
    IN IF s[i] = IT /\ r > i + 1 /\ r + 1 <= Len(s) /\ s[r] = RB /\ s[r + 1] = FROM_IDX
       THEN [ok |-> TRUE,
             repl |-> SubSeq(s, i, r - 1) \o ADDED_NAMES \o <<RB, FROM_IDX>>,
             next |-> r + 2]
       ELSE [ok |-> FALSE, repl |-> <<>>, next |-> i + 1]

\* re.search(import_pattern, content)
HasTypesImport(s) == \E i \in 1..Len(s) : MatchImport(s, i).ok

RECURSIVE SubImport(_, _)
SubImport(s, i) ==
    IF i > Len(s) THEN <<>>
    ELSE LET m == MatchImport(s, i)
         IN IF m.ok THEN m.repl \o SubImport(s, m.next)
            ELSE <<s[i]>> \o SubImport(s, i + 1)

\* the tokens that spell  from ['"].+['"];
IsFrom(t) == t \in {FROM_IDX, FROM_VITEST}

\* the first line break from i on, Len(s)+1 if none
LineEnd(s, i) ==
    LET B == {k \in i..Len(s) : s[k] = NL}
    IN IF B = {} THEN Len(s) + 1 ELSE Min(B)

\* (import .+ from ['"].+['"];)\n matches from i: the line of i goes on with a
\* from-clause and ends, before its line break, with a quote and a semicolon
MatchAnyImport(s, i) ==
    LET e == LineEnd(s, i)
    IN /\ s[i] \in {IT, IMP}
       /\ e <= Len(s)
       /\ \/ e - 1 > i /\ IsFrom(s[e - 1])
          \/ /\ e - 2 > i
             /\ s[e - 1] = SEMI /\ s[e - 2] = STATUS_OK
             /\ \E j \in (i + 1)..(e - 3) : IsFrom(s[j])

\* re.sub(r"(import .+ from ['\"].+['\"];)\n", r"\1\n<new import>\n", content, count=1)
AddNewImport(s) ==
    LET M == {i \in 1..Len(s) : MatchAnyImport(s, i)}
    IN IF M = {} THEN s
       ELSE LET e == LineEnd(s, Min(M))
            IN SubSeq(s, 1, e) \o NEW_IMPORT \o SubSeq(s, e + 1, Len(s))

\* Add import if not present
AddImport(content) ==
    IF NeedsImport(content)
    THEN IF HasTypesImport(content) THEN SubImport(content, 1)
         ELSE AddNewImport(content)
    ELSE content

\* toBe\((400|404|500)\)
ErrorExpects == {EXPECT_400, EXPECT_404, EXPECT_500}

\* a success pattern that leaves out 201
SuccessExpectsOnly200 == {EXPECT_200}

\* toBe\((200|201)\)
SuccessExpects == {EXPECT_200, EXPECT_201}

\* (\(await res\.json\(\)\)) as any;(\s+expect\(res\.status\)\.toBe\((...)\)) matches from i
MatchCast(s, i, expects) ==
    LET j == SkipSpace(s, i + 2)
    IN /\ i + 1 <= Len(s)
       /\ s[i] = CAST /\ s[i + 1] = AS_ANY
       /\ j > i + 2 /\ j <= Len(s)
       /\ s[j] \in expects

RECURSIVE SubCast(_, _, _, _)
SubCast(s, i, expects, as) ==
    IF i > Len(s) THEN <<>>
    ELSE IF MatchCast(s, i, expects)
         THEN LET j == SkipSpace(s, i + 2)
              IN <<CAST, as>> \o SubSeq(s, i + 2, j) \o SubCast(s, j + 1, expects, as)
         ELSE <<s[i]>> \o SubCast(s, i + 1, expects, as)

\* For error responses (status 400, 404, 500)
ErrorRule(content) == SubCast(content, 1, ErrorExpects, AS_ERROR)

\* For success responses (status 200, 201)
SuccessRule(content) == SubCast(content, 1, SuccessExpects, AS_SUCCESS)

\* the number of characters of a token
CharLen(t) == Len(t)

RECURSIVE CharCount(_, _, _)
CharCount(s, a, b) == IF a > b THEN 0 ELSE CharLen(s[a]) + CharCount(s, a + 1, b)

\* [\s\S]{0,50}
PingWindow == 50

\* the ends k of a match of the /ping pattern from i: after toBe(200); at most
\* PingWindow characters, then status: 'ok'
PingEnds(s, i) ==
    IF MatchCast(s, i, {EXPECT_200})
    THEN LET j == SkipSpace(s, i + 2)
         IN IF j + 1 <= Len(s) /\ s[j + 1] = SEMI
            THEN {k \in (j + 2)..Len(s) :
                     s[k] = STATUS_OK /\ CharCount(s, j + 2, k - 1) <= PingWindow}
            ELSE {}
    ELSE {}

RECURSIVE SubPing(_, _)
SubPing(s, i) ==
    IF i > Len(s) THEN <<>>
    ELSE LET K == PingEnds(s, i)
         IN IF K # {}
            THEN <<CAST, AS_PING>> \o SubSeq(s, i + 2, Max(K)) \o SubPing(s, Max(K) + 1)
            ELSE <<s[i]>> \o SubPing(s, i + 1)

\* For /ping responses
PingRule(content) == SubPing(content, 1)

\* Remaining 'as any' -> generic response type: \) as any; -> ) as SuccessResponse | ErrorResponse;
RemainingRule(content) ==
    [k \in 1..Len(content) |->
        IF content[k] = AS_ANY /\ k > 1 /\ EndsParen(content[k - 1])
        THEN AS_GENERIC ELSE content[k]]

\* the text fix_any_types writes back for the text it read
fix_any_types(content) ==
    RemainingRule(PingRule(SuccessRule(ErrorRule(AddImport(content)))))

----------------------------------------------------------------------------
(* The batch runs: state *)

VARIABLES
    script,      \* the script that runs
    targets,     \* test_files / files_to_fix / the paths test_dir.rglob yields
    files,       \* the file system: path -> [kind, text]
    original,    \* the file system when the run started
    pos,         \* the index in targets of the loop's current target
    pc,          \* "loop", "done" (after print("Done!")) or "crashed" (uncaught exception)
    stdout,      \* the lines printed
    exitStatus,  \* the exit status of the interpreter, -1 while it runs
    writes,      \* path -> the number of times the run wrote the file
    outcome,     \* index in targets -> what the run did with the target
    content,     \* the text under rewrite, for the text-level runs
    input,       \* the text the first text-level run started from
    first,       \* the text after the first text-level run
    runs         \* the number of text-level runs done

vars == <<script, targets, files, original, pos, pc, stdout, exitStatus, writes,
          outcome, content, input, first, runs>>

batchVars == <<script, targets, files, original, pos, pc, stdout, exitStatus, writes,
               outcome>>
textVars == <<content, input, first, runs>>

MaxTargets == 3
MaxRuns == 2
MaxLintChunks == 5
MaxAnyChunks == 3

Scripts == {"fix-all-lint", "fix-unused-imports", "fix-any-types"}

\* sample file texts: one no script changes, one with the three imported names,
\* one with casts
PLAIN == <<DATA, SEMI, NL>>
IMPORTS == <<IT, SP, FOO>> \o UNUSED \o <<SP, RB, FROM_IDX, NL>>
CASTS == <<CAST, AS_ANY, NL, EXPECT_200, SEMI, NL, CAST, AS_ANY, NL, EXPECT_404, SEMI, NL>>
SampleTexts == {PLAIN, IMPORTS, CASTS}

\* what a path can be: nothing, a directory, a file that cannot be opened for
\* reading, a file whose bytes are not text, a file, a file that cannot be
\* opened for writing
NoText == <<>>
FileStates ==
    {[kind |-> k, text |-> NoText] : k \in {"missing", "dir", "noread", "undecodable"}}
    \cup {[kind |-> k, text |-> t] : k \in {"file", "readonly"}, t \in SampleTexts}

\* a loop that does not test the path
existsAlways(f, p) == TRUE

\* Path.exists()
exists(f, p) == f[p].kind # "missing"

\* the exception read_text() / open(file_path, 'r').read() raises, "none" if none
ReadError(f, p) ==
    CASE f[p].kind = "missing" -> "FileNotFoundError"
      [] f[p].kind = "dir" -> "IsADirectoryError"
      [] f[p].kind = "noread" -> "PermissionError"
      [] f[p].kind = "undecodable" -> "UnicodeDecodeError"
      [] OTHER -> "none"

\* the exception write_text() / open(file_path, 'w') raises, "none" if none
WriteError(f, p) ==
    CASE f[p].kind = "readonly" -> "PermissionError"
      [] f[p].kind = "file" -> "none"
      [] OTHER -> "IsADirectoryError"

\* the rewrite each script applies to the text it read
Rewrite(sc, text) ==
    CASE sc = "fix-all-lint" -> remove_unused_imports(text)
      [] sc = "fix-unused-imports" -> remove_unused(text)
      [] OTHER -> fix_any_types(text)

TextIdle ==
    /\ content = <<>>
    /\ input = <<>>
    /\ first = <<>>
    /\ runs = 0

\* a run starts: explicit lists may name missing paths, rglob yields only
\* paths that exist
Init ==
    /\ script \in Scripts
    /\ \E n \in 0..MaxTargets :
          /\ targets = [i \in 1..n |-> i]
          /\ files \in [1..n -> FileStates]
          /\ writes = [p \in 1..n |-> 0]
          /\ outcome = [i \in 1..n |-> "none"]
    /\ script = "fix-any-types" => \A p \in DOMAIN files : exists(files, p)
    /\ original = files
    /\ pos = 1
    /\ pc = "loop"
    /\ stdout = <<>>
    /\ exitStatus = -1
    /\ TextIdle

----------------------------------------------------------------------------
(* The batch runs: steps *)

\* a handler around the loop that reports the exception and lets the script end
RaiseBreak ==
    /\ outcome' = [outcome EXCEPT ![pos] = "Failed"]
    /\ pc' = "done"
    /\ exitStatus' = 0
    /\ stdout' = Append(stdout, <<"Done!">>)
    /\ UNCHANGED <<pos, files, writes>>

\* an exception no handler catches: the interpreter prints the traceback and
\* exits with status 1
Raise ==
    /\ outcome' = [outcome EXCEPT ![pos] = "Failed"]
    /\ pc' = "crashed"
    /\ exitStatus' = 1
    /\ UNCHANGED <<pos, stdout, files, writes>>

\* write_text(content) / open(file_path, 'w').write(content) that succeeds
Save(p, old, new) ==
    /\ files' = [files EXCEPT ![p].text = new]
    /\ writes' = [writes EXCEPT ![p] = @ + 1]

\* read, rewrite, write back, print "Fixed: ..."
Process(p) ==
    \/ /\ ReadError(files, p) # "none"
       /\ Raise
    \/ /\ ReadError(files, p) = "none"
       /\ WriteError(files, p) # "none"
       /\ Raise
    \/ /\ ReadError(files, p) = "none"
       /\ WriteError(files, p) = "none"
       /\ Save(p, files[p].text, Rewrite(script, files[p].text))
       /\ stdout' = Append(stdout, <<"Fixed:", p>>)
       /\ outcome' = [outcome EXCEPT ![pos] = "Fixed"]
       /\ pos' = pos + 1
       /\ UNCHANGED <<pc, exitStatus>>

AtTarget(sc) == pc = "loop" /\ script = sc /\ pos <= Len(targets)

\* fix-all-lint.py: one turn of the loop over test_files
LintStep ==
    /\ AtTarget("fix-all-lint")
    /\ \/ /\ ~exists(files, targets[pos])
          /\ outcome' = [outcome EXCEPT ![pos] = "Skipped"]
          /\ pos' = pos + 1
          /\ UNCHANGED <<pc, exitStatus, stdout, files, writes>>
       \/ /\ exists(files, targets[pos])
          /\ Process(targets[pos])
    /\ UNCHANGED <<script, targets, original>>
    /\ UNCHANGED textVars

\* fix-unused-imports.py: one turn of the loop over files_to_fix
UnusedStep ==
    /\ AtTarget("fix-unused-imports")
    /\ \/ /\ ~exists(files, targets[pos])
          /\ stdout' = Append(stdout, <<"Skipping", targets[pos], "(not found)">>)
          /\ outcome' = [outcome EXCEPT ![pos] = "Skipped"]
          /\ pos' = pos + 1
          /\ UNCHANGED <<pc, exitStatus, files, writes>>
       \/ /\ exists(files, targets[pos])
          /\ Process(targets[pos])
    /\ UNCHANGED <<script, targets, original>>
    /\ UNCHANGED textVars

\* fix-any-types.py: one turn of the loop over test_dir.rglob('*.test.ts')
AnyStep ==
    /\ AtTarget("fix-any-types")
    /\ Process(targets[pos])
    /\ UNCHANGED <<script, targets, original>>
    /\ UNCHANGED textVars

\* the loop is over: print("Done!") and the interpreter exits with status 0
Finish ==
    /\ pc = "loop"
    /\ pos > Len(targets)
    /\ pc' = "done"
    /\ exitStatus' = 0
    /\ stdout' = Append(stdout, <<"Done!">>)
    /\ UNCHANGED <<script, targets, files, original, pos, writes, outcome>>
    /\ UNCHANGED textVars

Next == LintStep \/ UnusedStep \/ AnyStep \/ Finish

Spec == Init /\ [][Next]_vars

----------------------------------------------------------------------------
(* Claims about the batch runs, checked under Spec *)

Ended == pc \in {"done", "crashed"}
Indices == 1..Len(targets)

\* in file system f, the path of the target at index i is no file and no directory
Missing(f, i) == f[targets[i]].kind = "missing"

\* the target at index i exists and its read or its write raises
Failing(i) ==
    /\ ~Missing(original, i)
    /\ \/ ReadError(original, targets[i]) # "none"
       \/ WriteError(original, targets[i]) # "none"

\* the file at index i is as it was when the run started, and was never written
Untouched(i) ==
    /\ writes[targets[i]] = 0
    /\ files[targets[i]] = original[targets[i]]

\* C1, as claimed: when a run has ended, every target whose read or write
\* fails is recorded as Failed and every target after it has been processed.
C1_FailureIsCaught ==
    Ended =>
        \A i \in Indices :
            Failing(i) =>
                /\ outcome[i] = "Failed"
                /\ \A j \in Indices : j > i => outcome[j] # "none"

\* the text at index i is one the script's rule list does not change
SameText(i) ==
    /\ original[targets[i]].kind \in {"file", "readonly"}
    /\ Rewrite(script, original[targets[i]].text) = original[targets[i]].text

\* C2, as claimed: a target whose text the rule list does not change is
\* never written.
C2_NoWriteWhenUnchanged ==
    \A i \in Indices : SameText(i) => writes[targets[i]] = 0

C5_ExitStatus ==
    Ended =>
        /\ exitStatus # 0 <=> \E i \in Indices : outcome[i] = "Failed"
        /\ (\A i \in Indices : outcome[i] \in {"Fixed", "Skipped"}) => exitStatus = 0
        /\ exitStatus \in {0, 1}

\* C5 witness: a run with a skipped, a rewritten and a failed target has
\* ended with status 1.
C5_Witness ==
    /\ Ended
    /\ exitStatus = 1
    /\ \E i, j, k \in Indices :
          /\ outcome[i] = "Skipped"
          /\ outcome[j] = "Fixed"
          /\ outcome[k] = "Failed"

----------------------------------------------------------------------------
(* The rewrites on texts: a script run on one file, and run again on the
   file it wrote *)

\* the texts made of at most n pieces of V
RECURSIVE Texts(_, _)
Texts(V, n) ==
    IF n = 0 THEN {<<>>}
    ELSE LET T == Texts(V, n - 1)
         IN T \cup {t \o c : t \in T, c \in V}

BatchIdle ==
    /\ targets = <<>>
    /\ files = <<>>
    /\ original = <<>>
    /\ pos = 1
    /\ pc = "text"
    /\ stdout = <<>>
    /\ exitStatus = -1
    /\ writes = <<>>
    /\ outcome = <<>>

\* pieces of import statements for remove_unused_imports
LintPieces ==
    { <<IT, SP, FOO>>,
      <<COMMA, SP, SuccessResponse>>,
      <<COMMA, SP, ErrorResponse>>,
      <<COMMA, SP, PingResponse>>,
      <<COMMA, SP, BAR>>,
      <<SP, RB>>,
      <<COMMA>>,
      <<RB>> }

InitLint ==
    /\ script = "fix-all-lint"
    /\ BatchIdle
    /\ content \in Texts(LintPieces, MaxLintChunks)
    /\ input = content
    /\ first = <<>>
    /\ runs = 0

\* the import lines a test file starts with
AnyHeaders ==
    { <<>>,
      <<IMP, FROM_VITEST, NL>>,
      <<IT, SP, FOO, SP, RB, FROM_IDX, NL>>,
      <<IT, SP, SuccessResponse, SP, RB, FROM_IDX, NL>> }

\* the statements of test bodies for fix_any_types
AnyPieces ==
    { <<CAST, AS_ANY, NL, EXPECT_200, SEMI, NL>>,
      <<CAST, AS_ANY, SP, EXPECT_201, SEMI, NL>>,
      <<CAST, AS_ANY, NL, EXPECT_400, SEMI, NL>>,
      <<CAST, AS_ANY, NL, SP, EXPECT_404, SEMI, NL>>,
      <<CAST, AS_ANY, NL, EXPECT_500, SEMI, NL>>,
      <<CAST, AS_ANY, EXPECT_200, SEMI, NL>>,
      <<CAST, AS_ANY, NL>>,
      <<EXPECT_DATA, STATUS_OK>>,
      <<DATA, AS_ANY, NL>> }

InitAny ==
    /\ script = "fix-any-types"
    /\ BatchIdle
    /\ \E h \in AnyHeaders, b \in Texts(AnyPieces, MaxAnyChunks) : content = h \o b
    /\ input = content
    /\ first = <<>>
    /\ runs = 0

\* the script runs on the file: the file then holds the rewritten text
RunText(sc) ==
    /\ script = sc
    /\ pc = "text"
    /\ runs < MaxRuns
    /\ content' = Rewrite(sc, content)
    /\ first' = IF runs = 0 THEN content' ELSE first
    /\ runs' = runs + 1
    /\ UNCHANGED input
    /\ UNCHANGED batchVars

RunLint == RunText("fix-all-lint")
RunAny == RunText("fix-any-types")

SpecLint == InitLint /\ [][RunLint]_vars
SpecAny == InitAny /\ [][RunAny]_vars

----------------------------------------------------------------------------
(* Claims about remove_unused_imports, checked under SpecLint *)

\* the indices of s whose token satisfies P, in order
Where(s, P(_)) == SelectSeq([k \in 1..Len(s) |-> k], LAMBDA k : P(s[k]))

IsImportType(t) == t = IT
IsIdent(t) == t \in ResponseNames \cup {FOO, BAR}
IsOther(t) == t \in {FOO, BAR}

\* the import type statement at i is closed by a brace
Closed(s, i) == FirstBrace(s, i + 1) <= Len(s)

\* the tokens between "import type {" at i and its closing brace
BraceList(s, i) == SubSeq(s, i + 1, FirstBrace(s, i + 1) - 1)

\* b spells " Name, Name, ..., Name "
IsNameList(b) ==
    /\ Len(b) >= 3
    /\ (Len(b) - 2) % 3 = 1
    /\ b[1] = SP /\ b[Len(b)] = SP
    /\ \A k \in 2..(Len(b) - 1) :
          CASE (k - 1) % 3 = 1 -> IsIdent(b[k])
            [] (k - 1) % 3 = 2 -> b[k] = COMMA
            [] OTHER -> b[k] = SP

\* the names of a brace list, in order
NamesOf(b) == SelectSeq(b, IsIdent)

\* C4, as claimed: the rule list of remove_unused_imports is idempotent; a
\* second run on the output of the first leaves the text as it is.
C4_LintIdempotent == runs = 2 => content = first

\* C6, as claimed: after one call, every import type brace list that starts
\* with another type name holds none of the three response names, and its
\* other names are kept in their order.
C6_NamesRemoved ==
    runs >= 1 =>
        LET I == Where(input, IsImportType)
            O == Where(first, IsImportType)
        IN \A k \in 1..Len(I) :
              (/\ Closed(input, I[k])
               /\ IsNameList(BraceList(input, I[k]))
               /\ IsOther(BraceList(input, I[k])[2]))
              => /\ Len(O) = Len(I)
                 /\ Closed(first, O[k])
                 /\ NamesOf(BraceList(first, O[k]))
                      = SelectSeq(NamesOf(BraceList(input, I[k])), IsOther)

----------------------------------------------------------------------------
(* Claims about fix_any_types, checked under SpecAny *)

\* the tokens the import step never adds: they keep their order and number
\* from the text read to the text written
IsKey(t) == t \notin {IT, SP, COMMA, RB, FROM_IDX, NL} \cup ResponseNames

\* the index in the text written of the token at index x of the text read
Image(x) ==
    LET O == Where(first, IsKey)
        r == Cardinality({k \in 1..x : IsKey(input[k])})
    IN IF r \in 1..Len(O) THEN O[r] ELSE 0

\* the casts of s: the indices of "(await res.json())" followed by " as any;"
Casts(s) == {i \in 1..(Len(s) - 1) : s[i] = CAST /\ s[i + 1] = AS_ANY}

\* in s, the cast at i is followed by white space, at least one character of
\* it, and then by one of the expects E
CastSite(s, i, E) ==
    LET j == SkipSpace(s, i + 2)
    IN i + 2 < j /\ j <= Len(s) /\ s[j] \in E

\* the cast at i of the text read is written as `as`, and what follows it up
\* to its expect is written as it was read
WrittenAs(i, as) ==
    LET o == Image(i + 1)
        n == SkipSpace(input, i + 2) - i - 1
    IN /\ o > 1
       /\ first[o - 1] = CAST
       /\ first[o] = as
       /\ o + n <= Len(first)
       /\ SubSeq(first, o + 1, o + n) = SubSeq(input, i + 2, i + 1 + n)

\* C7: a cast followed, after white space, by expect(res.status).toBe(200)
\* or toBe(201) is written as SuccessResponse, one followed by toBe(400),
\* toBe(404) or toBe(500) as ErrorResponse, and the expect after it is
\* written as it was read.
C7_CastsByStatus ==
    runs >= 1 =>
        \A i \in Casts(input) :
            /\ CastSite(input, i, {EXPECT_200, EXPECT_201}) => WrittenAs(i, AS_SUCCESS)
            /\ CastSite(input, i, {EXPECT_400, EXPECT_404, EXPECT_500})
                  => WrittenAs(i, AS_ERROR)

\* C7 witness: a text with an import line to extend, a cast before toBe(201)
\* and a cast before toBe(404) has been rewritten.
C7_Witness ==
    /\ runs >= 1
    /\ Len(first) > Len(input)
    /\ \E i \in Casts(input) : CastSite(input, i, {EXPECT_201})
    /\ \E i \in Casts(input) : CastSite(input, i, {EXPECT_404})

\* in s, the cast at i is a /ping cast: toBe(200); follows it and
\* status: 'ok' comes within the next 50 characters
PingSite(s, i) ==
    LET j == SkipSpace(s, i + 2)
    IN /\ CastSite(s, i, {EXPECT_200})
       /\ j + 1 <= Len(s) /\ s[j + 1] = SEMI
       /\ \E k \in (j + 2)..Len(s) :
             s[k] = STATUS_OK /\ CharCount(s, j + 2, k - 1) <= 50

\* C8, as claimed: a /ping cast is written as PingResponse.
C8_PingCast ==
    runs >= 1 =>
        \A i \in Casts(input) :
            PingSite(input, i) => Image(i + 1) > 0 /\ first[Image(i + 1)] = AS_PING

\* the response names the import type statements of s name
ImportedNames(s) ==
    {n \in ResponseNames :
        \E i \in 1..Len(s) :
            /\ s[i] = IT
            /\ Closed(s, i)
            /\ \E k \in 1..Len(BraceList(s, i)) : BraceList(s, i)[k] = n}

\* the response names of the casts the rewrite wrote
WrittenNames ==
    {n \in ResponseNames :
        \E x \in 1..Len(input) :
            /\ input[x] = AS_ANY
            /\ Image(x) > 0
            /\ first[Image(x)] # AS_ANY
            /\ Mentions(first[Image(x)], n)}

\* C9, as claimed: every response name of a cast the rewrite wrote is named
\* in an import type statement of the text written.
C9_WrittenNamesImported ==
    runs >= 1 => WrittenNames \subseteq ImportedNames(first)

\* s holds ") as any;"
HasParenAsAny(s) == \E k \in 2..Len(s) : s[k] = AS_ANY /\ EndsParen(s[k - 1])

\* C10: the text the first run writes holds no ") as any;", and a second run
\* on it writes the same text.
C10_AnyIdempotent ==
    /\ runs >= 1 => ~HasParenAsAny(first)
    /\ runs >= 2 => content = first

\* C10 witness: a text with ") as any;" that got a new import line and a
\* rewritten cast has been run through twice.
C10_Witness ==
    /\ runs = 2
    /\ HasParenAsAny(input)
    /\ Len(first) > Len(input)
    /\ ~HasTypesImport(input)
    /\ content = first

====
